---- MODULE Spec2Model ----
(***************************************************************************)
(* Model of package shutdown (src/shutdown.go): SetTimeout and Listen.     *)
(*                                                                         *)
(* One Listen call is modelled.  Its goroutines are the coordinator (the   *)
(* closure of lines 48-88), one goroutine per task (lines 59-64) and the   *)
(* wait-group waiter (lines 67-70).  The environment delivers interrupts,  *)
(* lets the context deadline elapse and calls SetTimeout.                  *)
(*                                                                         *)
(* Time is abstract: a context created with a positive duration may expire *)
(* at any later moment; one created with a duration <= 0 is born expired.  *)
(* A select that finds several cases ready takes any of them; a select     *)
(* that finds none parks, and the first event that then happens on one of  *)
(* its channels resolves it in the same step (Go runtime semantics).       *)
(***************************************************************************)
EXTENDS Integers, Sequences, FiniteSets, TLC

\* ---------------------------------------------------------------- bounds
MaxTasks == 2
MaxDuration == 0

\* ------------------------------------------------------ program constants
DefaultTimeout == 10
StatusTimeoutExceeded == 4
StatusInterruptReceived == 3
StatusTaskError == 2
SigChanCap == 1
ErrChanCap == 1

Durations == (-1) .. MaxDuration

VARIABLES
    timeout,      \* package variable timeout
    tasks,        \* the tasks given to Listen, 1..len(tasks)
    subscribed,   \* signal.Notify(sigchan, os.Interrupt) has run
    sigchan,      \* number of signals buffered in sigchan
    errchan,      \* errors buffered in errchan (an error is named by its task)
    donechan,     \* donechan is closed
    wg,           \* the WaitGroup counter
    ctxState,     \* "none", "active", "expired" (deadline), "canceled" (cancel())
    ctxTimeout,   \* the duration given to context.WithTimeout (0 before it)
    pc,           \* the coordinator goroutine's position
    next,         \* index of the next task the range loop launches
    tpc,          \* each task goroutine's position
    err,          \* each task goroutine's err: "none" (t running), "nil", "error"
    waiter,       \* the waiter goroutine's position
    recvErr,      \* err received in the select's errchan case (0: none)
    outcome,      \* the select case taken, as the episode's outcome
    observed,     \* events the coordinator has received, in order
    log,          \* records handed to slog
    exits,        \* status codes handed to os.Exit
    sigTimeout,   \* value of timeout when the first interrupt was received
                  \* (0 before it)
    deadlineFirst,\* the deadline passed while the episode was unresolved and
                  \* no task had returned yet
    second,       \* an interrupt delivered after the first one was received,
                  \* while the episode was unresolved: "none", "early" (some
                  \* task had not returned yet) or "late"
    tctx,         \* the context each task goroutine hands to t: "none" (not
                  \* launched), "ctx" (the scope of line 54)
    firstErr      \* the task whose error was the first sent on errchan
                  \* (0: none yet)

vars == <<timeout, tasks, subscribed, sigchan, errchan, donechan, wg, ctxState,
          ctxTimeout, pc, next, tpc, err, waiter, recvErr, outcome, observed,
          log, exits, sigTimeout, deadlineFirst, second, tctx, firstErr>>

Outcomes == {"Success", "TimeoutExceeded", "SecondInterrupt", "TaskError"}

TypeOK ==
    /\ timeout \in Durations \cup {DefaultTimeout}
    /\ tasks \in {1 .. k : k \in 0 .. MaxTasks}
    /\ subscribed \in BOOLEAN
    /\ sigchan \in 0 .. SigChanCap
    /\ errchan \in Seq(tasks) /\ Len(errchan) <= ErrChanCap
    /\ donechan \in BOOLEAN
    /\ wg \in 0 .. MaxTasks
    /\ ctxState \in {"none", "active", "expired", "canceled"}
    /\ ctxTimeout \in Durations \cup {DefaultTimeout}
    /\ pc \in {"notify", "recv", "log", "ctx", "launch", "select", "parked",
               "logterm", "exit", "exited", "defer", "returned"}
    /\ next \in 1 .. MaxTasks + 1
    /\ tpc \in [tasks -> {"idle", "running", "send", "wgdone", "finished"}]
    /\ err \in [tasks -> {"none", "nil", "error"}]
    /\ waiter \in {"none", "wait", "close", "exited"}
    /\ recvErr \in tasks \cup {0}
    /\ outcome \in Outcomes \cup {"none"}
    /\ Len(observed) <= 2
    /\ Len(exits) <= 1
    /\ sigTimeout \in Durations \cup {DefaultTimeout}
    /\ deadlineFirst \in BOOLEAN
    /\ second \in {"none", "early", "late"}
    /\ tctx \in [tasks -> {"none", "ctx"}]
    /\ firstErr \in tasks \cup {0}

\* os.Exit has not been called: the process is still running.
Alive == exits = <<>>

Init ==
    /\ timeout = DefaultTimeout
    /\ tasks \in {1 .. k : k \in 0 .. MaxTasks}
    /\ subscribed = FALSE
    /\ sigchan = 0
    /\ errchan = <<>>
    /\ donechan = FALSE
    /\ wg = 0
    /\ ctxState = "none"
    /\ ctxTimeout = 0
    /\ pc = "notify"
    /\ next = 1
    /\ tpc = [i \in tasks |-> "idle"]
    /\ err = [i \in tasks |-> "none"]
    /\ waiter = "none"
    /\ recvErr = 0
    /\ outcome = "none"
    /\ observed = <<>>
    /\ log = <<>>
    /\ exits = <<>>
    /\ sigTimeout = 0
    /\ deadlineFirst = FALSE
    /\ second = "none"
    /\ tctx = [i \in tasks |-> "none"]
    /\ firstErr = 0

\* ------------------------------------------------------------- SetTimeout
\* Lines 24-26.  The host program may call it at any time; the write is not
\* synchronised with the coordinator's reads at lines 52 and 54, each of
\* which sees the value before or after it.
SetTimeout(d) ==
    /\ Alive
    /\ timeout' = d
    /\ UNCHANGED <<tasks, subscribed, sigchan, errchan, donechan, wg,
                   ctxState, ctxTimeout, pc, next, tpc, err, waiter, recvErr,
                   outcome, observed, log, exits, sigTimeout, deadlineFirst,
                   second, tctx, firstErr>>

\* ------------------------------------------------- the select, lines 72-87
\* Mutant of OutcomeOf: the bodies of the ctx.Done() and donechan cases are
\* exchanged.
OutcomeOf_Swapped(c) ==
    CASE c = "deadline"  -> "Success"
      [] c = "interrupt" -> "SecondInterrupt"
      [] c = "error"     -> "TaskError"
      [] c = "done"      -> "TimeoutExceeded"

\* The outcome each case of the select stands for.
OutcomeOf(c) ==
    CASE c = "deadline"  -> "TimeoutExceeded"
      [] c = "interrupt" -> "SecondInterrupt"
      [] c = "error"     -> "TaskError"
      [] c = "done"      -> "Success"

\* Mutant of PcAfter: the select sits in a loop, so the donechan case comes
\* back to the select.
PcAfter_Loop(o) == IF o = "Success" THEN "select" ELSE "logterm"

\* Where the coordinator continues after taking the case of outcome o: the
\* three abnormal cases log and exit, the donechan case falls out of the
\* select and returns through the deferred cancel.
PcAfter(o) == IF o = "Success" THEN "defer" ELSE "logterm"

\* Mutant of Ready: the select has no ctx.Done() case.
Ready_NoDeadline ==
    {c \in {"interrupt", "error", "done"} :
        \/ c = "interrupt" /\ sigchan > 0
        \/ c = "error"     /\ errchan # <<>>
        \/ c = "done"      /\ donechan}

\* The cases of the select that can proceed in the current state.
Ready ==
    {c \in {"deadline", "interrupt", "error", "done"} :
        \/ c = "deadline"  /\ ctxState \in {"expired", "canceled"}
        \/ c = "interrupt" /\ sigchan > 0
        \/ c = "error"     /\ errchan # <<>>
        \/ c = "done"      /\ donechan}

\* The coordinator takes case c, receiving error e (0 when c is not "error").
Resolve(c, e) ==
    /\ outcome' = OutcomeOf(c)
    /\ observed' = Append(observed, c)
    /\ recvErr' = e
    /\ pc' = PcAfter(OutcomeOf(c))

\* The coordinator is parked in the select: no case was ready when it arrived
\* and nothing has happened on its channels since.
Parked == pc = "parked"

\* --------------------------------------------- the coordinator, lines 48-88
\* Line 49: signal.Notify(sigchan, os.Interrupt).
Notify ==
    /\ Alive
    /\ pc = "notify"
    /\ subscribed' = TRUE
    /\ pc' = "recv"
    /\ UNCHANGED <<timeout, tasks, sigchan, errchan, donechan, wg, ctxState,
                   ctxTimeout, next, tpc, err, waiter, recvErr, outcome,
                   observed, log, exits, sigTimeout, deadlineFirst, second,
                   tctx, firstErr>>

\* Mutant of RecvFirst: the coordinator goes on without waiting for a signal.
RecvFirst_NoWait ==
    /\ Alive
    /\ pc = "recv"
    /\ sigTimeout' = timeout
    /\ pc' = "log"
    /\ UNCHANGED <<timeout, tasks, subscribed, sigchan, errchan, donechan, wg,
                   ctxState, ctxTimeout, next, tpc, err, waiter, recvErr,
                   outcome, observed, log, exits, deadlineFirst, second, tctx,
                   firstErr>>

\* Line 50: <-sigchan, the first interrupt.
RecvFirst ==
    /\ Alive
    /\ pc = "recv"
    /\ sigchan > 0
    /\ sigchan' = sigchan - 1
    /\ observed' = Append(observed, "interrupt")
    /\ sigTimeout' = timeout
    /\ pc' = "log"
    /\ UNCHANGED <<timeout, tasks, subscribed, errchan, donechan, wg,
                   ctxState, ctxTimeout, next, tpc, err, waiter, recvErr,
                   outcome, log, exits, deadlineFirst, second, tctx,
                   firstErr>>

\* Line 52: slog.Info("shutting down", "timeout", timeout).
LogStart ==
    /\ Alive
    /\ pc = "log"
    /\ log' = Append(log, [msg |-> "shutting down", arg |-> timeout])
    /\ pc' = "ctx"
    /\ UNCHANGED <<timeout, tasks, subscribed, sigchan, errchan, donechan, wg,
                   ctxState, ctxTimeout, next, tpc, err, waiter, recvErr,
                   outcome, observed, exits, sigTimeout, deadlineFirst,
                   second, tctx, firstErr>>

\* No task has returned from t(ctx) yet (line 60).
NoneReturned == \A i \in tasks : err[i] = "none"

\* Every task has returned from t(ctx) (line 60).
AllReturned == \A i \in tasks : err[i] # "none"

\* Mutant of ScopeDuration: the scope is made from the default, whatever
\* SetTimeout has stored.
ScopeDuration_Default == DefaultTimeout

\* The duration line 54 hands to context.WithTimeout.
ScopeDuration == timeout

\* Mutant of ScopeState: a scope of duration zero is born active.
ScopeState_Strict(d) == IF d < 0 THEN "expired" ELSE "active"

\* A context made with a duration <= 0 is already past its deadline.
ScopeState(d) == IF d <= 0 THEN "expired" ELSE "active"

\* Lines 54-55: ctx, cancel := context.WithTimeout(..., timeout); defer cancel().
WithTimeout ==
    /\ Alive
    /\ pc = "ctx"
    /\ ctxTimeout' = ScopeDuration
    /\ ctxState' = ScopeState(ScopeDuration)
    /\ deadlineFirst' = (ScopeState(ScopeDuration) = "expired")
    /\ pc' = "launch"
    /\ UNCHANGED <<timeout, tasks, subscribed, sigchan, errchan, donechan, wg,
                   next, tpc, err, waiter, recvErr, outcome, observed, log,
                   exits, sigTimeout, second, tctx, firstErr>>

\* Mutant of Launch: the loop launches no further task once an error has been
\* reported.
Launch_StopOnError ==
    /\ Alive
    /\ pc = "launch"
    /\ next \in tasks
    /\ firstErr = 0
    /\ wg' = wg + 1
    /\ tpc' = [tpc EXCEPT ![next] = "running"]
    /\ tctx' = [tctx EXCEPT ![next] = "ctx"]
    /\ next' = next + 1
    /\ UNCHANGED <<timeout, tasks, subscribed, sigchan, errchan, donechan,
                   ctxState, ctxTimeout, pc, err, waiter, recvErr, outcome,
                   observed, log, exits, sigTimeout, deadlineFirst, second,
                   firstErr>>

\* Mutant of Launch: the task goroutine hands t a fresh background context
\* instead of the scope of line 54.
Launch_Background ==
    /\ Alive
    /\ pc = "launch"
    /\ next \in tasks
    /\ wg' = wg + 1
    /\ tpc' = [tpc EXCEPT ![next] = "running"]
    /\ tctx' = [tctx EXCEPT ![next] = "background"]
    /\ next' = next + 1
    /\ UNCHANGED <<timeout, tasks, subscribed, sigchan, errchan, donechan,
                   ctxState, ctxTimeout, pc, err, waiter, recvErr, outcome,
                   observed, log, exits, sigTimeout, deadlineFirst, second,
                   firstErr>>

\* Lines 57-65, one iteration: wg.Add(1) and go func(t){...}(t).
Launch ==
    /\ Alive
    /\ pc = "launch"
    /\ next \in tasks
    /\ wg' = wg + 1
    /\ tpc' = [tpc EXCEPT ![next] = "running"]
    /\ tctx' = [tctx EXCEPT ![next] = "ctx"]
    /\ next' = next + 1
    /\ UNCHANGED <<timeout, tasks, subscribed, sigchan, errchan, donechan,
                   ctxState, ctxTimeout, pc, err, waiter, recvErr, outcome,
                   observed, log, exits, sigTimeout, deadlineFirst, second,
                   firstErr>>

\* Lines 67-70: the loop is over; go func(){ wg.Wait(); close(donechan) }().
SpawnWaiter ==
    /\ Alive
    /\ pc = "launch"
    /\ next \notin tasks
    /\ waiter' = "wait"
    /\ pc' = "select"
    /\ UNCHANGED <<timeout, tasks, subscribed, sigchan, errchan, donechan, wg,
                   ctxState, ctxTimeout, next, tpc, err, recvErr, outcome,
                   observed, log, exits, sigTimeout, deadlineFirst, second,
                   tctx, firstErr>>

\* Line 72: the coordinator reaches the select.  With a case ready it takes
\* any ready case; with none it parks on the four channels.
Select ==
    /\ Alive
    /\ pc = "select"
    /\ IF Ready = {}
       THEN /\ pc' = "parked"
            /\ UNCHANGED <<sigchan, errchan, recvErr, outcome, observed>>
       ELSE \E c \in Ready :
              /\ Resolve(c, IF c = "error" THEN Head(errchan) ELSE 0)
              /\ sigchan' = IF c = "interrupt" THEN sigchan - 1 ELSE sigchan
              /\ errchan' = IF c = "error" THEN Tail(errchan) ELSE errchan
    /\ UNCHANGED <<timeout, tasks, subscribed, donechan, wg, ctxState,
                   ctxTimeout, next, tpc, err, waiter, log, exits, sigTimeout,
                   deadlineFirst, second, tctx, firstErr>>

\* The record each abnormal case logs (lines 75, 79, 83).
TerminalLog(o) ==
    CASE o = "TimeoutExceeded" ->
           [msg |-> "shutdown timeout exceeded", arg |-> 0]
      [] o = "SecondInterrupt" ->
           [msg |-> "interrupt received; shutting down immediately", arg |-> 0]
      [] o = "TaskError" ->
           [msg |-> "error during graceful shutdown", arg |-> recvErr]

\* Mutant of StatusOf: the timeout and interrupt cases exit with each
\* other's status.
StatusOf_Swapped(o) ==
    CASE o = "TimeoutExceeded" -> StatusInterruptReceived
      [] o = "SecondInterrupt" -> StatusTimeoutExceeded
      [] o = "TaskError"       -> StatusTaskError

\* The status each abnormal case exits with (lines 76, 80, 84).
StatusOf(o) ==
    CASE o = "TimeoutExceeded" -> StatusTimeoutExceeded
      [] o = "SecondInterrupt" -> StatusInterruptReceived
      [] o = "TaskError"       -> StatusTaskError

\* Mutant of LogTerminal: the case exits without logging.
LogTerminal_Silent ==
    /\ Alive
    /\ pc = "logterm"
    /\ pc' = "exit"
    /\ UNCHANGED <<timeout, tasks, subscribed, sigchan, errchan, donechan, wg,
                   ctxState, ctxTimeout, next, tpc, err, waiter, recvErr,
                   outcome, observed, log, exits, sigTimeout, deadlineFirst,
                   second, tctx, firstErr>>

\* Lines 75, 79, 83: slog.Error / slog.Warn in the case taken.
LogTerminal ==
    /\ Alive
    /\ pc = "logterm"
    /\ log' = Append(log, TerminalLog(outcome))
    /\ pc' = "exit"
    /\ UNCHANGED <<timeout, tasks, subscribed, sigchan, errchan, donechan, wg,
                   ctxState, ctxTimeout, next, tpc, err, waiter, recvErr,
                   outcome, observed, exits, sigTimeout, deadlineFirst,
                   second, tctx, firstErr>>

\* Mutant of Exit: the termination action runs the deferred cancel first.
Exit_RunsDefers ==
    /\ Alive
    /\ pc = "exit"
    /\ exits' = Append(exits, StatusOf(outcome))
    /\ ctxState' = IF ctxState = "active" THEN "canceled" ELSE ctxState
    /\ pc' = "exited"
    /\ UNCHANGED <<timeout, tasks, subscribed, sigchan, errchan, donechan, wg,
                   ctxTimeout, next, tpc, err, waiter, recvErr, outcome,
                   observed, log, sigTimeout, deadlineFirst, second, tctx,
                   firstErr>>

\* Lines 76, 80, 84: os.Exit(status).  The process ends: nothing runs after.
Exit ==
    /\ Alive
    /\ pc = "exit"
    /\ exits' = Append(exits, StatusOf(outcome))
    /\ pc' = "exited"
    /\ UNCHANGED <<timeout, tasks, subscribed, sigchan, errchan, donechan, wg,
                   ctxState, ctxTimeout, next, tpc, err, waiter, recvErr,
                   outcome, observed, log, sigTimeout, deadlineFirst, second,
                   tctx, firstErr>>

\* Mutant of Return: after the success case Listen goes back to waiting for
\* an interrupt.
Return_Relisten ==
    /\ Alive
    /\ pc = "defer"
    /\ ctxState' = IF ctxState = "active" THEN "canceled" ELSE ctxState
    /\ pc' = "recv"
    /\ UNCHANGED <<timeout, tasks, subscribed, sigchan, errchan, donechan, wg,
                   ctxTimeout, next, tpc, err, waiter, recvErr, outcome,
                   observed, log, exits, sigTimeout, deadlineFirst, second,
                   tctx, firstErr>>

\* Lines 85-88 with line 55: the donechan case is empty, the goroutine
\* returns and the deferred cancel() runs.
Return ==
    /\ Alive
    /\ pc = "defer"
    /\ ctxState' = IF ctxState = "active" THEN "canceled" ELSE ctxState
    /\ pc' = "returned"
    /\ UNCHANGED <<timeout, tasks, subscribed, sigchan, errchan, donechan, wg,
                   ctxTimeout, next, tpc, err, waiter, recvErr, outcome,
                   observed, log, exits, sigTimeout, deadlineFirst, second,
                   tctx, firstErr>>

\* ------------------------------------------ the task goroutines, lines 59-64
\* Line 60: t(ctx) returns r, nil or an error; tasks are opaque.
TaskReturn(i, r) ==
    /\ Alive
    /\ tpc[i] = "running"
    /\ err' = [err EXCEPT ![i] = r]
    /\ tpc' = [tpc EXCEPT ![i] = IF r = "error" THEN "send" ELSE "wgdone"]
    /\ UNCHANGED <<timeout, tasks, subscribed, sigchan, errchan, donechan, wg,
                   ctxState, ctxTimeout, pc, next, waiter, recvErr, outcome,
                   observed, log, exits, sigTimeout, deadlineFirst, second,
                   tctx, firstErr>>

\* Mutant of TaskSend: errchan is a one-slot cell that every failing task
\* overwrites instead of blocking on it.
TaskSend_Overwrite(i) ==
    /\ Alive
    /\ tpc[i] = "send"
    /\ IF Parked
       THEN /\ Resolve("error", i)
            /\ UNCHANGED errchan
       ELSE /\ errchan' = <<i>>
            /\ UNCHANGED <<pc, outcome, observed, recvErr>>
    /\ firstErr' = IF firstErr = 0 THEN i ELSE firstErr
    /\ tpc' = [tpc EXCEPT ![i] = "wgdone"]
    /\ UNCHANGED <<timeout, tasks, subscribed, sigchan, donechan, wg,
                   ctxState, ctxTimeout, next, err, waiter, log, exits,
                   sigTimeout, deadlineFirst, second, tctx>>

\* Mutant of TaskSend: a task that finds errchan full drops its error and
\* goes on to wg.Done().
TaskSend_NonBlocking(i) ==
    /\ Alive
    /\ tpc[i] = "send"
    /\ IF Parked
       THEN /\ Resolve("error", i)
            /\ UNCHANGED errchan
       ELSE /\ errchan' = IF Len(errchan) < ErrChanCap
                          THEN Append(errchan, i)
                          ELSE errchan
            /\ UNCHANGED <<pc, outcome, observed, recvErr>>
    /\ firstErr' = IF firstErr = 0 THEN i ELSE firstErr
    /\ tpc' = [tpc EXCEPT ![i] = "wgdone"]
    /\ UNCHANGED <<timeout, tasks, subscribed, sigchan, donechan, wg,
                   ctxState, ctxTimeout, next, err, waiter, log, exits,
                   sigTimeout, deadlineFirst, second, tctx>>

\* Line 61: errchan <- err.  A parked coordinator receives it directly;
\* otherwise it goes into the buffer, and the send blocks while that is full.
TaskSend(i) ==
    /\ Alive
    /\ tpc[i] = "send"
    /\ IF Parked
       THEN /\ Resolve("error", i)
            /\ UNCHANGED errchan
       ELSE /\ Len(errchan) < ErrChanCap
            /\ errchan' = Append(errchan, i)
            /\ UNCHANGED <<pc, outcome, observed, recvErr>>
    /\ firstErr' = IF firstErr = 0 THEN i ELSE firstErr
    /\ tpc' = [tpc EXCEPT ![i] = "wgdone"]
    /\ UNCHANGED <<timeout, tasks, subscribed, sigchan, donechan, wg,
                   ctxState, ctxTimeout, next, err, waiter, log, exits,
                   sigTimeout, deadlineFirst, second, tctx>>

\* Mutant of TaskDone: the goroutine ends without wg.Done().
TaskDone_NoDone(i) ==
    /\ Alive
    /\ tpc[i] = "wgdone"
    /\ tpc' = [tpc EXCEPT ![i] = "finished"]
    /\ UNCHANGED <<timeout, tasks, subscribed, sigchan, errchan, donechan, wg,
                   ctxState, ctxTimeout, pc, next, err, waiter, recvErr,
                   outcome, observed, log, exits, sigTimeout, deadlineFirst,
                   second, tctx, firstErr>>

\* Line 63: wg.Done().
TaskDone(i) ==
    /\ Alive
    /\ tpc[i] = "wgdone"
    /\ wg' = wg - 1
    /\ tpc' = [tpc EXCEPT ![i] = "finished"]
    /\ UNCHANGED <<timeout, tasks, subscribed, sigchan, errchan, donechan,
                   ctxState, ctxTimeout, pc, next, err, waiter, recvErr,
                   outcome, observed, log, exits, sigTimeout, deadlineFirst,
                   second, tctx, firstErr>>

\* ------------------------------------------ the waiter goroutine, lines 67-70
\* Line 68: wg.Wait() returns once the counter is zero.
WaiterWait ==
    /\ Alive
    /\ waiter = "wait"
    /\ wg = 0
    /\ waiter' = "close"
    /\ UNCHANGED <<timeout, tasks, subscribed, sigchan, errchan, donechan, wg,
                   ctxState, ctxTimeout, pc, next, tpc, err, recvErr, outcome,
                   observed, log, exits, sigTimeout, deadlineFirst, second,
                   tctx, firstErr>>

\* Line 69: close(donechan); a parked coordinator wakes in its donechan case.
WaiterClose ==
    /\ Alive
    /\ waiter = "close"
    /\ donechan' = TRUE
    /\ waiter' = "exited"
    /\ IF Parked
       THEN Resolve("done", 0)
       ELSE UNCHANGED <<pc, outcome, observed, recvErr>>
    /\ UNCHANGED <<timeout, tasks, subscribed, sigchan, errchan, wg, ctxState,
                   ctxTimeout, next, tpc, err, log, exits, sigTimeout,
                   deadlineFirst, second, tctx, firstErr>>

\* ------------------------------------------------------------ environment
\* Mutant of Interrupt: a notification is only ever buffered; it does not
\* wake a coordinator parked in the select.
Interrupt_NoWake ==
    /\ Alive
    /\ subscribed
    /\ second' = IF observed # <<>> /\ outcome = "none" /\ second = "none"
                 THEN IF AllReturned THEN "late" ELSE "early"
                 ELSE second
    /\ sigchan' = IF sigchan < SigChanCap THEN sigchan + 1 ELSE sigchan
    /\ UNCHANGED <<timeout, tasks, subscribed, errchan, donechan, wg,
                   ctxState, ctxTimeout, pc, next, tpc, err, waiter, recvErr,
                   outcome, observed, log, exits, sigTimeout, deadlineFirst,
                   tctx, firstErr>>

\* The OS delivers an interrupt to the subscription of line 49.  Package
\* signal sends without blocking: a parked coordinator receives it directly,
\* an empty buffer keeps it, a full buffer drops it.  Before line 49 has run
\* an interrupt is not Listen's to handle.
Interrupt ==
    /\ Alive
    /\ subscribed
    /\ second' = IF observed # <<>> /\ outcome = "none" /\ second = "none"
                 THEN IF AllReturned THEN "late" ELSE "early"
                 ELSE second
    /\ IF Parked
       THEN /\ Resolve("interrupt", 0)
            /\ UNCHANGED sigchan
       ELSE /\ sigchan' = IF sigchan < SigChanCap THEN sigchan + 1 ELSE sigchan
            /\ UNCHANGED <<pc, outcome, observed, recvErr>>
    /\ UNCHANGED <<timeout, tasks, subscribed, errchan, donechan, wg,
                   ctxState, ctxTimeout, next, tpc, err, waiter, log, exits,
                   sigTimeout, deadlineFirst, tctx, firstErr>>

\* Mutant of DeadlineExpires: the deadline passes without waking a
\* coordinator parked in the select.
DeadlineExpires_NoWake ==
    /\ Alive
    /\ ctxState = "active"
    /\ ctxState' = "expired"
    /\ deadlineFirst' = (outcome = "none" /\ NoneReturned)
    /\ UNCHANGED <<timeout, tasks, subscribed, sigchan, errchan, donechan, wg,
                   ctxTimeout, pc, next, tpc, err, waiter, recvErr, outcome,
                   observed, log, exits, sigTimeout, second, tctx, firstErr>>

\* The deadline of the context of line 54 passes: ctx.Done() is closed; a
\* parked coordinator wakes in its ctx.Done() case.
DeadlineExpires ==
    /\ Alive
    /\ ctxState = "active"
    /\ ctxState' = "expired"
    /\ deadlineFirst' = (outcome = "none" /\ NoneReturned)
    /\ IF Parked
       THEN Resolve("deadline", 0)
       ELSE UNCHANGED <<pc, outcome, observed, recvErr>>
    /\ UNCHANGED <<timeout, tasks, subscribed, sigchan, errchan, donechan, wg,
                   ctxTimeout, next, tpc, err, waiter, log, exits, sigTimeout,
                   second, tctx, firstErr>>

\* ---------------------------------------------------------- specification
Coordinator ==
    \/ Notify
    \/ RecvFirst
    \/ LogStart
    \/ WithTimeout
    \/ Launch
    \/ SpawnWaiter
    \/ Select
    \/ LogTerminal
    \/ Exit
    \/ Return

Task(i) ==
    \/ \E r \in {"nil", "error"} : TaskReturn(i, r)
    \/ TaskSend(i)
    \/ TaskDone(i)

Waiter ==
    \/ WaiterWait
    \/ WaiterClose

Next ==
    \/ \E d \in Durations : SetTimeout(d)
    \/ Coordinator
    \/ \E i \in tasks : Task(i)
    \/ Waiter
    \/ Interrupt
    \/ DeadlineExpires

Spec == Init /\ [][Next]_vars

\* Fair scheduling of the goroutines the Go runtime runs: the coordinator,
\* the statements of a task goroutine after t(ctx) has returned, and the
\* waiter.  Nothing is assumed of the tasks themselves, of the interrupts, of
\* SetTimeout or of the deadline.
TaskTail(i) == i \in tasks /\ (TaskSend(i) \/ TaskDone(i))

FairSpec ==
    /\ Spec
    /\ WF_vars(Coordinator)
    /\ WF_vars(Waiter)
    /\ \A i \in 1 .. MaxTasks : WF_vars(TaskTail(i))

\* FairSpec with a finite timeout: the deadline of an active scope passes.
FairDeadlineSpec == FairSpec /\ WF_vars(DeadlineExpires)

\* ------------------------------------------------------------------ claims
\* The coordinator takes its decision in this step.
Decides == outcome = "none" /\ outcome' # "none"

\* The records of the log written at a terminal transition.
TerminalLogs == {k \in DOMAIN log : log[k].msg # "shutting down"}

\* C1: at most one outcome is produced per episode, and once it has been
\* produced the outcome never changes and the coordinator receives no further
\* task result, deadline or interrupt event.
C1_OneOutcome ==
    /\ [](Len(observed) <= 2 /\ (outcome # "none" <=> Len(observed) = 2))
    /\ [][outcome # "none" =>
            /\ outcome' = outcome
            /\ observed' = observed
            /\ recvErr' = recvErr]_vars

\* C1 witness: the episode resolved to Success and an interrupt delivered
\* afterwards sits in sigchan, never received.
C1_Witness == outcome = "Success" /\ pc = "returned" /\ sigchan = 1

\* C2 (as claimed): when the coordinator decides with a reported failure
\* pending, the deadline not elapsed and no second interrupt pending, the
\* outcome is TaskError carrying that failure.
C2_Claim ==
    [][(Decides /\ errchan # <<>> /\ ctxState = "active" /\ sigchan = 0) =>
         (outcome' = "TaskError" /\ recvErr' = Head(errchan))]_vars

\* C3 (as claimed): Success is only reached with every task returned and no
\* task having reported a failure, and without a termination action.
C3_Claim ==
    outcome = "Success" =>
        /\ \A i \in tasks : tpc[i] = "finished" /\ err[i] = "nil"
        /\ exits = <<>>

\* C4: once every task of a nonempty task set has returned nil, the episode
\* resolves to Success unless the deadline elapses or a second interrupt is
\* delivered first; a Success episode never invokes the termination action.
C4_AllSucceeded == tasks # {} /\ \A i \in tasks : err[i] = "nil"

C4_SuccessWhenAllSucceed ==
    /\ C4_AllSucceeded ~>
         (outcome = "Success" \/ ctxState = "expired" \/ second # "none")
    /\ [](outcome = "Success" => exits = <<>>)

\* C4 witness: a nonempty task set, all tasks returned nil, the deadline never
\* elapsed, no second interrupt, and the episode resolved to Success.
C4_Witness ==
    /\ C4_AllSucceeded
    /\ outcome = "Success"
    /\ pc = "returned"
    /\ ctxState = "canceled"
    /\ second = "none"
    /\ sigchan = 0

C7_StatusMatchesOutcome ==
    /\ Len(exits) <= 1
    /\ \A k \in DOMAIN exits :
         /\ exits[k] \in {2, 3, 4}
         /\ exits[k] = 4 => outcome = "TimeoutExceeded"
         /\ exits[k] = 3 => outcome = "SecondInterrupt"
         /\ exits[k] = 2 => outcome = "TaskError"
    /\ outcome \in {"Success", "none"} => exits = <<>>

\* C7 witness: the process was terminated with status 3.
C7_Witness == exits = <<3>> /\ outcome = "SecondInterrupt"

\* C8 (as claimed): the episode's deadline is derived from the value timeout
\* had when the first interrupt was received; no later SetTimeout changes it.
C8_Original == ctxState # "none" => ctxTimeout = sigTimeout

\* C8 (amended): the deadline is derived from the value timeout has when the
\* scope is created (line 54), and no SetTimeout after that changes it.
C8_DeadlineFixedAtScope ==
    [][/\ (ctxState = "none" /\ ctxState' # "none") =>
            /\ ctxTimeout' = timeout
            /\ ctxState' = IF timeout <= 0 THEN "expired" ELSE "active"
       /\ ctxState # "none" =>
            /\ ctxTimeout' = ctxTimeout
            /\ ctxState' # "none"
            /\ ctxState' = "active" => ctxState = "active"]_vars

\* C8 witness: SetTimeout ran after the scope was created and the scope kept
\* its duration.
C8_Witness ==
    /\ ctxState = "active"
    /\ ctxTimeout = DefaultTimeout
    /\ timeout # ctxTimeout
    /\ sigTimeout = ctxTimeout

\* C9 (as claimed): with an empty task set every episode resolves to Success.
C9_Original == (tasks = {} /\ outcome # "none") => outcome = "Success"

\* C9 (amended): with an empty task set the episode never resolves to
\* TaskError, and it resolves to Success whenever the deadline has not elapsed
\* and no second interrupt has been delivered when the coordinator decides.
C9_EmptyTaskSet ==
    /\ [](tasks = {} => outcome # "TaskError")
    /\ [][(tasks = {} /\ Decides /\ ctxState' # "expired" /\ second' = "none")
            => outcome' = "Success"]_vars

\* C9 witness: an empty task set resolved to Success.
C9_Witness == tasks = {} /\ outcome = "Success" /\ pc = "returned"

\* C10 (as claimed): every terminal path, Success included, has logged
\* exactly one terminal event, and each abnormal path has terminated the
\* process once with its code.
C10_Original ==
    /\ pc \in {"returned", "exited"} => Cardinality(TerminalLogs) = 1
    /\ pc = "exited" => Len(exits) = 1

\* C10 (amended): each abnormal path logs exactly one terminal event, its
\* own, and terminates the process exactly once with its own code; the
\* Success path logs no terminal event and terminates nothing.
C10_TerminalEvents ==
    /\ pc = "exited" =>
         /\ Cardinality(TerminalLogs) = 1
         /\ Len(log) = 2
         /\ log[2].msg =
              CASE outcome = "TimeoutExceeded" -> "shutdown timeout exceeded"
                [] outcome = "SecondInterrupt" ->
                     "interrupt received; shutting down immediately"
                [] outcome = "TaskError" -> "error during graceful shutdown"
         /\ outcome = "TaskError" => log[2].arg = recvErr
         /\ exits =
              CASE outcome = "TimeoutExceeded" -> <<4>>
                [] outcome = "SecondInterrupt" -> <<3>>
                [] outcome = "TaskError" -> <<2>>
    /\ pc = "returned" =>
         /\ TerminalLogs = {}
         /\ exits = <<>>
    /\ Cardinality(TerminalLogs) <= 1

\* C10 witness: an episode that resolved to Success and returned, with the
\* episode-start record as its only log record.
C10_Witness == pc = "returned" /\ Len(log) = 1 /\ tasks # {}

\* C11: once the first interrupt has been received, the episode reaches a
\* terminal outcome and the coordinator ends (os.Exit or return), whether or
\* not any task ever returns.
C11_EpisodeEnds ==
    (observed # <<>>) ~> (outcome # "none" /\ pc \in {"exited", "returned"})

\* C11 witness: the episode ended in TimeoutExceeded with every task of a
\* nonempty task set still inside t(ctx).
C11_Witness ==
    /\ tasks # {}
    /\ \A i \in tasks : tpc[i] = "running"
    /\ outcome = "TimeoutExceeded"
    /\ pc = "exited"

\* The tasks that have returned an error from t(ctx).
Failed == {i \in tasks : err[i] = "error"}

\* C12: the error a TaskError outcome carries, and logs, is the first error
\* sent on errchan; a later failure never replaces it.
C12_FirstErrorWins ==
    /\ [](outcome = "TaskError" =>
            /\ firstErr # 0
            /\ recvErr = firstErr
            /\ pc \in {"exit", "exited"} => log[Len(log)].arg = firstErr)
    /\ [][firstErr # 0 => firstErr' = firstErr]_vars
    /\ [][recvErr # 0 => recvErr' = recvErr]_vars

\* C12 witness: two tasks failed, the second sent its error after the
\* coordinator took the first, and the process exited with the first logged.
C12_Witness ==
    /\ Cardinality(Failed) >= 2
    /\ outcome = "TaskError"
    /\ pc = "exited"
    /\ errchan # <<>>
    /\ Head(errchan) # recvErr

\* C13: no task runs before the scope exists, every launched task is handed
\* that one scope, and the scope's duration is the value timeout has when the
\* coordinator, processing the first interrupt, creates the scope.
C13_ScopeBeforeTasks ==
    /\ [](\A i \in tasks : tpc[i] # "idle" =>
            (ctxState # "none" /\ tctx[i] = "ctx"))
    /\ [](\A i \in tasks : tpc[i] = "idle" => tctx[i] = "none")
    /\ [][(ctxState = "none" /\ ctxState' # "none") =>
            /\ ctxTimeout' = timeout
            /\ observed = <<"interrupt">>
            /\ \A i \in tasks : tpc'[i] = "idle"]_vars
    /\ [][ctxState # "none" => ctxTimeout' = ctxTimeout]_vars

\* C13 witness: every task of a two-task set is running with the scope, whose
\* duration was set by SetTimeout before the scope was created.
C13_Witness ==
    /\ Cardinality(tasks) >= 2
    /\ \A i \in tasks : tpc[i] = "running" /\ tctx[i] = "ctx"
    /\ ctxTimeout # DefaultTimeout

\* C14 (as claimed): the timeout in the episode-start log record is the
\* duration the scope was made with.
C14_Claim == ctxState # "none" => log[1].arg = ctxTimeout

\* C15: no task is invoked before the first interrupt has been received, and
\* a task goroutine, once started, never starts again: it is started from
\* "idle" only, and never returns to "idle" or to t(ctx).
C15_OnceAfterInterrupt ==
    /\ [](\A i \in tasks : tpc[i] # "idle" => observed # <<>>)
    /\ [][\A i \in tasks :
            /\ (tpc'[i] = "running" /\ tpc[i] # "running") => tpc[i] = "idle"
            /\ tpc[i] # "idle" => tpc'[i] # "idle"
            /\ err[i] # "none" => (err'[i] = err[i] /\ tpc'[i] # "running")
         ]_vars

\* C15 witness: both tasks of a two-task set have run to the end, one of them
\* having failed.
C15_Witness ==
    /\ Cardinality(tasks) >= 2
    /\ \A i \in tasks : tpc[i] = "finished"
    /\ Failed # {}

\* The coordinator has reached the select or gone past it.
Racing ==
    pc \in {"select", "parked", "logterm", "exit", "exited", "defer",
            "returned"}

\* C16: when the coordinator reaches the select every task has been launched,
\* and while tasks remain to be launched the loop can launch the next one
\* whatever the tasks already launched have reported.
C16_AllLaunchedBeforeRace ==
    /\ Racing => \A i \in tasks : tpc[i] # "idle"
    /\ (Alive /\ pc = "launch" /\ next \in tasks) => ENABLED Launch
    /\ (pc = "launch" /\ next \in tasks) => outcome = "none"

\* C16 witness: the first task has reported its failure on errchan while the
\* second is still to be launched.
C16_Witness ==
    /\ pc = "launch"
    /\ next = 2
    /\ next \in tasks
    /\ errchan = <<1>>

\* C17: the scope is released only by the deferred cancel on the success
\* path, and otherwise leaves "active" only by its own deadline; the
\* coordinator's steps that resolve to InterruptReceived or TaskError, log and
\* terminate do not touch the scope, which is unreleased when os.Exit runs.
C17_ScopeNotCancelledOnExit ==
    /\ [](ctxState = "canceled" => (outcome = "Success" /\ pc = "returned"))
    /\ [](pc \in {"exit", "exited"} => ctxState \in {"active", "expired"})
    /\ [][(ctxState = "active" /\ ctxState' # "active") =>
            \/ /\ ctxState' = "expired"
               /\ pc' = pc \/ outcome' = "TimeoutExceeded"
            \/ /\ ctxState' = "canceled"
               /\ pc = "defer"
               /\ outcome = "Success"]_vars
    /\ [][(outcome' \in {"InterruptReceived", "TaskError"} /\ pc' # pc) =>
            ctxState' = ctxState]_vars

\* C17 witness: the process has terminated on a task error while the scope is
\* still active and another task is still running under it.
C17_Witness ==
    /\ pc = "exited"
    /\ outcome = "TaskError"
    /\ ctxState = "active"
    /\ \E i \in tasks : tpc[i] = "running"

\* The scope has been made with a duration of zero or less.
BornExpired == ctxState # "none" /\ ctxTimeout <= 0

\* C18: with a timeout of zero or less the scope is expired from its creation,
\* so the deadline case is ready when the select begins, the coordinator never
\* parks and the select can always be taken; every task has by then been
\* launched with that scope; and the episode ends whatever the tasks do.
C18_NonPositiveTimeout ==
    /\ [](BornExpired => (ctxState = "expired" /\ pc # "parked"))
    /\ []((BornExpired /\ pc = "select") =>
            ("deadline" \in Ready /\ ENABLED Select))
    /\ []((BornExpired /\ Racing) =>
            \A i \in tasks : tpc[i] # "idle" /\ tctx[i] = "ctx")
    /\ BornExpired ~> (outcome # "none" /\ pc \in {"exited", "returned"})

\* C18 witness: with a timeout of zero the process has terminated on the
\* deadline while both tasks, launched with the scope, are still running.
C18_Witness ==
    /\ ctxTimeout = 0
    /\ ctxState = "expired"
    /\ Cardinality(tasks) >= 2
    /\ \A i \in tasks : tpc[i] = "running" /\ tctx[i] = "ctx"
    /\ outcome = "TimeoutExceeded"
    /\ pc = "exited"

\* C19 (as claimed): once two tasks have failed the all-tasks-done signal is
\* never raised.
C19_Original == Cardinality(Failed) >= 2 => ~donechan

\* C19 (amended): an episode in which two or more tasks failed never resolves
\* to Success; as long as the coordinator has received no error, all failed
\* tasks but one are blocked on the send, so wg is positive and donechan is
\* open.
C19_TwoFailuresNeverSuccess ==
    /\ outcome = "Success" => Cardinality(Failed) <= 1
    /\ (Cardinality(Failed) >= 2 /\ recvErr = 0) =>
          /\ Cardinality({i \in Failed : tpc[i] # "send"}) <= 1
          /\ wg > 0
          /\ waiter # "exited"
          /\ ~donechan

\* C19 witness: two tasks failed, the second is still blocked on the send and
\* the episode has ended on the deadline.
C19_Witness ==
    /\ Cardinality(Failed) >= 2
    /\ \E i \in Failed : tpc[i] = "send"
    /\ errchan # <<>>
    /\ outcome = "TimeoutExceeded"
    /\ pc = "exited"

\* C20: once the episode has resolved to Success the outcome stays Success,
\* the coordinator only runs the deferred cancel and returns, nothing is read
\* from sigchan, the subscription stays installed, no task is started, nothing
\* is logged and os.Exit is never called.
C20_SuccessIsFinal ==
    /\ [](outcome = "Success" =>
            (subscribed /\ exits = <<>> /\ pc \in {"defer", "returned"}))
    /\ [][outcome = "Success" =>
            /\ outcome' = "Success"
            /\ observed' = observed
            /\ sigchan' >= sigchan
            /\ log' = log
            /\ \A i \in tasks : tpc'[i] = "running" => tpc[i] = "running"]_vars

\* C20 witness: Listen has returned after all of a non-empty task set
\* finished, and an interrupt sits unread in sigchan.
C20_Witness ==
    /\ outcome = "Success"
    /\ pc = "returned"
    /\ tasks # {}
    /\ \A i \in tasks : tpc[i] = "finished"
    /\ ctxState = "canceled"
    /\ sigchan = SigChanCap

====
